---- MODULE Spec2Model ----
(***************************************************************************)
(* Model of scripts/make_confidence_report_spsa.py: the entry point main   *)
(* and the report driver make_confidence_report_spsa, one action per step  *)
(* of the script.  Strings that the script inspects (file paths, the name  *)
(* of the dataset class) are sequences of one-character strings, so that   *)
(* endswith, slicing, concatenation and the `in` test are computed.        *)
(* A Python value that may be None is a sequence: <<>> is None, <<v>> is v.*)
(***************************************************************************)
EXTENDS Integers, Sequences, FiniteSets, TLC

\* ---------------------------------------------------------------- bounds
MaxFlag == 1
MaxExamples == 2
MaxVal == 2
MaxParams == 1

\* ------------------------------------------------------- string helpers
None == <<>>
Some(v) == <<v>>

JOBLIB == <<".", "j", "o", "b", "l", "i", "b">>
SPSA_REPORT_SUFFIX == <<"_", "s", "p", "s", "a", "_", "r", "e", "p", "o", "r", "t">> \o JOBLIB
CIFAR == <<"C", "I", "F", "A", "R">>
MNIST == <<"M", "N", "I", "S", "T">>

\* str.endswith
EndsWith(s, suf) ==
  /\ Len(s) >= Len(suf)
  /\ SubSeq(s, Len(s) - Len(suf) + 1, Len(s)) = suf

\* s[:-k] for k > 0
DropLast(s, k) == SubSeq(s, 1, IF Len(s) > k THEN Len(s) - k ELSE 0)

\* needle in s
Contains(s, needle) ==
  \E i \in 1..(Len(s) - Len(needle) + 1) : SubSeq(s, i, i + Len(needle) - 1) = needle

\* --------------------------------------------------------------- inputs
SCRIPT == <<"s", ".", "p", "y">>

Filepaths ==
  { <<"m">> \o JOBLIB,
    JOBLIB,
    <<"m", ".", "p", "k", "l">>,
    <<"m">> \o JOBLIB \o <<"x">>,
    <<"j", "o", "b">> }

ExplicitReportPaths == { <<"r", ".", "p", "k", "l">> }

\* argv as main receives it: None (the default), or a list of strings
Argvs ==
  {None} \cup
  { Some(l) : l \in {<<>>, <<SCRIPT>>} \cup { <<SCRIPT, f>> : f \in Filepaths }
                    \cup { <<SCRIPT, <<"m">> \o JOBLIB, <<"e">> >> } }

IntFlags == {"train_start", "train_end", "test_start", "test_end", "nb_iter", "batch_size"}
FlagNames == IntFlags \cup {"which_set", "report_path"}
WhichSets == {"train", "test"}

FlagValues(f) ==
  IF f \in IntFlags THEN 0..MaxFlag
  ELSE IF f = "which_set" THEN WhichSets
  ELSE {None} \cup { Some(p) : p \in ExplicitReportPaths }

\* the defaults imported from cleverhans.confidence_report
DefaultChoices ==
  { [f \in FlagNames |->
       IF f \in IntFlags THEN v ELSE IF f = "which_set" THEN "test" ELSE None]
    : v \in 0..MaxFlag }

\* command lines: no flag given, one flag given, or every flag given
CommandLines ==
  { <<>> } \cup
  UNION { { [g \in {f} |-> v] : v \in FlagValues(f) } : f \in FlagNames } \cup
  { [f \in FlagNames |->
       IF f \in IntFlags THEN v ELSE IF f = "which_set" THEN w ELSE Some(p)]
    : v \in 0..MaxFlag, w \in WhichSets, p \in ExplicitReportPaths }

ClassNames ==
  { MNIST,
    <<"<">> \o CIFAR \o <<"1", "0", ">">>,
    <<"S", "V", "H", "N">>,
    <<"F">> \o MNIST,
    CIFAR \o <<"_">> \o MNIST,
    MNIST \o CIFAR,
    <<"C", "I", "F", "A">> }

\* names the module binds by import (lines 31-51) or by def (lines 57, 156)
ModuleNames ==
  { "logging", "time", "tf", "flags", "MaxConfidence", "SPSA",
    "correctness_and_confidence", "load", "set_log_level", "silence",
    "devices", "print_stats", "make_confidence_report",
    "BATCH_SIZE", "TRAIN_START", "TRAIN_END", "TEST_START", "TEST_END",
    "WHICH_SET", "NB_ITER", "REPORT_PATH", "FLAGS",
    "make_confidence_report_spsa", "main" }

VARIABLES
  pc,           \* position of the script
  error,        \* the exception that ended the run, "none" while running
  argv,         \* what main was called with
  defaults,     \* imported default values
  cmdline,      \* flags given on the command line
  args,         \* parameters bound by the call of make_confidence_report_spsa
  report_path,  \* the local report_path after lines 91-93
  model,        \* the loaded model
  dataset,      \* factory() and the locals derived from it
  mc_params,    \* attack parameters
  data,         \* x_data, y_data
  report,       \* the report mapping
  jobIdx,       \* index of the next job of the loop
  calls,        \* calls of correctness_and_confidence made so far
  disk          \* the report artifact on disk

vars == <<pc, error, argv, defaults, cmdline, args, report_path, model, dataset,
          mc_params, data, report, jobIdx, calls, disk>>

EmptyDict == [k \in {} |-> None]

\* flags.DEFINE_* with the imported default, overridden by the command line
FLAGS == [f \in FlagNames |-> IF f \in DOMAIN cmdline THEN cmdline[f] ELSE defaults[f]]

Init ==
  /\ pc = "main"
  /\ error = "none"
  /\ argv \in Argvs
  /\ defaults \in DefaultChoices
  /\ cmdline \in CommandLines
  /\ args = None
  /\ report_path = None
  /\ model = None
  /\ dataset = None
  /\ mc_params = None
  /\ data = None
  /\ report = EmptyDict
  /\ jobIdx = 1
  /\ calls = <<>>
  /\ disk = None

Fail(e) ==
  /\ pc' = "failed"
  /\ error' = e

\* ------------------------------------------------------------------ main
\* `_name_of_script, filepath = argv`: unpacking None is a TypeError, which
\* `except ValueError` does not catch; a list of another length is a ValueError
UnpackError(a) ==
  IF a = None THEN "TypeError"
  ELSE IF Len(a[1]) # 2 THEN "ValueError"
  ELSE "none"

\* the keyword arguments of the call on lines 164-168; train_start and
\* train_end are not passed and take the parameter defaults of line 57
CallArgs(filepath) ==
  [ filepath    |-> filepath,
    train_start |-> defaults.train_start,
    train_end   |-> defaults.train_end,
    test_start  |-> FLAGS.test_start,
    test_end    |-> FLAGS.test_end,
    batch_size  |-> FLAGS.batch_size,
    which_set   |-> FLAGS.which_set,
    report_path |-> FLAGS.report_path,
    nb_iter     |-> FLAGS.nb_iter ]

Main ==
  /\ pc = "main"
  /\ IF UnpackError(argv) # "none"
       THEN /\ Fail(UnpackError(argv))
            /\ UNCHANGED args
       ELSE /\ args' = Some(CallArgs(argv[1][2]))
            /\ pc' = "report_path"
            /\ UNCHANGED error
  /\ UNCHANGED <<argv, defaults, cmdline, report_path, model, dataset, mc_params,
                 data, report, jobIdx, calls, disk>>

\* ------------------------------------------ make_confidence_report_spsa
\* the assertion written with the `in` test in place of endswith
ReportPathAssertionByContainment(filepath) == Contains(filepath, JOBLIB)

\* the assertion of line 92
ReportPathAssertionHolds(filepath) == EndsWith(filepath, JOBLIB)

\* the suffix of the sibling script make_confidence_report.py
DefaultReportPathPlain(filepath) ==
  DropLast(filepath, Len(JOBLIB)) \o <<"_", "r", "e", "p", "o", "r", "t">> \o JOBLIB

\* line 93: filepath[:-len('.joblib')] + "_spsa_report.joblib"
DefaultReportPath(filepath) == DropLast(filepath, Len(JOBLIB)) \o SPSA_REPORT_SUFFIX

\* lines 83-93: seed, log level and session, then the report path
ResolveReportPath ==
  /\ pc = "report_path"
  /\ LET a == args[1] IN
       IF a.report_path = None
         THEN IF ReportPathAssertionHolds(a.filepath)
                THEN /\ report_path' = Some(DefaultReportPath(a.filepath))
                     /\ pc' = "load"
                     /\ UNCHANGED error
                ELSE /\ Fail("AssertionError")
                     /\ UNCHANGED report_path
         ELSE /\ report_path' = a.report_path
              /\ pc' = "load"
              /\ UNCHANGED error
  /\ UNCHANGED <<argv, defaults, cmdline, args, model, dataset, mc_params,
                 data, report, jobIdx, calls, disk>>

Centers == 0..1

\* what load(filepath) can return: a model with its parameters and the
\* dataset factory (class and keyword arguments) it was trained with
SavedModels ==
  [ nparams : 0..MaxParams,
    factory : [ cls : ClassNames,
                kwargs : [ center : Centers, max_val : 1..MaxVal ] ] ]

\* lines 95-97
LoadModel ==
  /\ pc = "load"
  /\ \/ /\ Fail("LoadError")
        /\ UNCHANGED model
     \/ \E m \in SavedModels :
          /\ model' = Some(m)
          /\ IF m.nparams > 0
               THEN pc' = "dataset" /\ UNCHANGED error
               ELSE Fail("AssertionError")
  /\ UNCHANGED <<argv, defaults, cmdline, args, report_path, dataset, mc_params,
                 data, report, jobIdx, calls, disk>>

\* lines 99-102: the four range bounds written into factory.kwargs
FactoryKwargs(kwargs, a) ==
  [ k \in DOMAIN kwargs \cup {"train_start", "train_end", "test_start", "test_end"} |->
      IF k = "train_start" THEN a.train_start
      ELSE IF k = "train_end" THEN a.train_end
      ELSE IF k = "test_start" THEN a.test_start
      ELSE IF k = "test_end" THEN a.test_end
      ELSE kwargs[k] ]

\* line 107
ValueRange(center, max_val) == max_val * (1 + center)

\* the lower bound with the sign lost
MinValueUnsigned(center, max_val) == center * max_val

\* line 108
MinValue(center, max_val) == 0 - center * max_val

\* lines 98-108
BuildDataset ==
  /\ pc = "dataset"
  /\ LET factory == model[1].factory
         kwargs == FactoryKwargs(factory.kwargs, args[1])
     IN dataset' = Some([ cls         |-> factory.cls,
                          kwargs      |-> kwargs,
                          value_range |-> ValueRange(kwargs.center, kwargs.max_val),
                          min_value   |-> MinValue(kwargs.center, kwargs.max_val) ])
  /\ pc' = "eps"
  /\ UNCHANGED <<error, argv, defaults, cmdline, args, report_path, model, mc_params,
                 data, report, jobIdx, calls, disk>>

\* the dispatch with its two tests in the other order
BaseEpsMnistFirst(cls) ==
  IF Contains(cls, MNIST) THEN Some([num |-> 3, den |-> 10])
  ELSE IF Contains(cls, CIFAR) THEN Some([num |-> 8, den |-> 255])
  ELSE None

\* lines 110-115: the base perturbation as a fraction, None when the
\* dataset family is not recognised
BaseEps(cls) ==
  IF Contains(cls, CIFAR) THEN Some([num |-> 8, den |-> 255])
  ELSE IF Contains(cls, MNIST) THEN Some([num |-> 3, den |-> 10])
  ELSE None

\* lines 117-120
McParams(base_eps, d, a) ==
  [ eps      |-> [num |-> base_eps.num * d.value_range, den |-> base_eps.den],
    nb_iter  |-> a.nb_iter,
    clip_min |-> d.min_value,
    clip_max |-> d.kwargs.max_val ]

\* lines 110-120
SelectEps ==
  /\ pc = "eps"
  /\ LET base == BaseEps(dataset[1].cls) IN
       IF base = None
         THEN /\ Fail("NotImplementedError")
              /\ UNCHANGED mc_params
         ELSE /\ mc_params' = Some(McParams(base[1], dataset[1], args[1]))
              /\ pc' = "get_set"
              /\ UNCHANGED error
  /\ UNCHANGED <<argv, defaults, cmdline, args, report_path, model, dataset,
                 data, report, jobIdx, calls, disk>>

\* line 123: dataset.get_set(which_set), examples and their labels
GetSetResults(which_set) ==
  { [ which_set |-> which_set,
      x_data    |-> [i \in 1..n |-> i],
      y_data    |-> [i \in 1..n |-> i % 2] ] : n \in 0..MaxExamples }

\* lines 127-128
MaxConfidenceAttack == [cls |-> "MaxConfidence", base_attacker |-> "SPSA"]

\* the job list with the attacked job first
JobsAttackFirst ==
  << [name |-> "mc", attack |-> Some(MaxConfidenceAttack), attack_params |-> mc_params,
      batch_size |-> None],
     [name |-> "clean", attack |-> None, attack_params |-> None, batch_size |-> None] >>

\* lines 130-131
Jobs ==
  << [name |-> "clean", attack |-> None, attack_params |-> None, batch_size |-> None],
     [name |-> "mc", attack |-> Some(MaxConfidenceAttack), attack_params |-> mc_params,
      batch_size |-> None] >>

\* lines 123-131
GetSet ==
  /\ pc = "get_set"
  /\ data' \in { Some(r) : r \in GetSetResults(args[1].which_set) }
  /\ report' = EmptyDict
  /\ jobIdx' = 1
  /\ pc' = "jobs"
  /\ UNCHANGED <<error, argv, defaults, cmdline, args, report_path, model, dataset,
                 mc_params, calls, disk>>

\* what correctness_and_confidence returns: one correctness flag and one
\* confidence per example
EvaluationResults(x) ==
  { [ correctness |-> [i \in 1..Len(x) |-> c[1 + (i % 2)]],
      confidence  |-> [i \in 1..Len(x) |-> k] ] :
      c \in {<<TRUE, TRUE>>, <<FALSE, FALSE>>, <<FALSE, TRUE>>}, k \in {50, 99} }

\* lines 138-141: the call of correctness_and_confidence for a job
EvaluationCall(job) ==
  [ x            |-> data[1].x_data,
    y            |-> data[1].y_data,
    batch_size   |-> IF job.batch_size = None THEN args[1].batch_size ELSE job.batch_size[1],
    attack       |-> job.attack,
    attack_params |-> job.attack_params ]

\* the report rebound to a fresh mapping instead of updated
StoreResultFresh(rep, name, packed) == [ k \in {name} |-> packed ]

\* lines 146-149
StoreResult(rep, name, packed) ==
  [ k \in DOMAIN rep \cup {name} |-> IF k = name THEN packed ELSE rep[k] ]

\* line 154 indented into the loop body
AfterJobSaveInLoop(idx) == "save"

\* line 133: the loop goes on while jobs remain, then line 154 follows
AfterJob(idx) == IF idx < Len(Jobs) THEN "jobs" ELSE "save"

\* lines 133-151: one iteration of the job loop
RunJob ==
  /\ pc = "jobs"
  /\ jobIdx <= Len(Jobs)
  /\ LET job == Jobs[jobIdx] IN
       /\ calls' = Append(calls, EvaluationCall(job))
       /\ \/ /\ Fail("EvaluationError")
             /\ UNCHANGED <<report, jobIdx>>
          \/ \E packed \in EvaluationResults(data[1].x_data) :
               /\ report' = StoreResult(report, job.name, packed)
               /\ jobIdx' = jobIdx + 1
               /\ pc' = AfterJob(jobIdx)
               /\ UNCHANGED error
  /\ UNCHANGED <<argv, defaults, cmdline, args, report_path, model, dataset,
                 mc_params, data, disk>>

\* line 154: save(report_path, report); the name save is looked up first
SaveReport ==
  /\ pc = "save"
  /\ IF "save" \in ModuleNames
       THEN /\ disk' = Some([path |-> report_path[1], content |-> report])
            /\ pc' = "done"
            /\ UNCHANGED error
       ELSE /\ Fail("NameError")
            /\ UNCHANGED disk
  /\ UNCHANGED <<argv, defaults, cmdline, args, report_path, model, dataset,
                 mc_params, data, report, jobIdx, calls>>

Next ==
  \/ Main
  \/ ResolveReportPath
  \/ LoadModel
  \/ BuildDataset
  \/ SelectEps
  \/ GetSet
  \/ RunJob
  \/ SaveReport

Spec == Init /\ [][Next]_vars
\* ---------------------------------------------------------------- claims
Called == args # None
LoopCompleted == pc \in {"save", "done"} \/ error = "NameError"
ExactlyOnePositional(a) == a # None /\ Len(a[1]) = 2
JobNames == {"clean", "mc"}

\* C1: a run whose model loaded, whose dataset family was recognised and
\* whose two jobs returned ends normally with the report saved at report_path
C1_RunEndsWithReportSaved ==
  ( /\ pc \in {"done", "failed"}
    /\ model # None
    /\ mc_params # None
    /\ DOMAIN report = JobNames )
  => ( /\ pc = "done"
       /\ error = "none"
       /\ disk = Some([path |-> report_path[1], content |-> report]) )

\* C2: main called with anything but exactly [script, filepath] (None
\* included) raises ValueError and never calls make_confidence_report_spsa
C2_WrongArgvRaisesValueError ==
  (pc # "main" /\ ~ExactlyOnePositional(argv))
  => (pc = "failed" /\ error = "ValueError" /\ ~Called)

\* C3: every flag given on the command line reaches the report routine with
\* the value given
C3_FlagsPassedUnchanged ==
  Called => \A f \in DOMAIN cmdline : args[1][f] = cmdline[f]

Dispatched == dataset # None /\ (mc_params # None \/ error = "NotImplementedError")
EpsIs(num, den) ==
  /\ mc_params # None
  /\ mc_params[1].eps.num * den = num * dataset[1].value_range * mc_params[1].eps.den
Unrecognised == error = "NotImplementedError" /\ mc_params = None

\* C4 as stated: a class name containing CIFAR gives eps 8/255 * value_range,
\* one containing MNIST gives 0.3 * value_range, any other name raises
\* NotImplementedError
C4_EpsByFamilyAsStated ==
  Dispatched =>
    LET cls == dataset[1].cls IN
      /\ Contains(cls, CIFAR) => EpsIs(8, 255)
      /\ Contains(cls, MNIST) => EpsIs(3, 10)
      /\ (~Contains(cls, CIFAR) /\ ~Contains(cls, MNIST)) => Unrecognised

\* C4 amended: a class name containing CIFAR gives eps 8/255 * value_range,
\* one containing MNIST and not CIFAR gives 0.3 * value_range, any other
\* name raises NotImplementedError
C4_EpsByFamily ==
  Dispatched =>
    LET cls == dataset[1].cls IN
      /\ Contains(cls, CIFAR) => EpsIs(8, 255)
      /\ (Contains(cls, MNIST) /\ ~Contains(cls, CIFAR)) => EpsIs(3, 10)
      /\ (~Contains(cls, CIFAR) /\ ~Contains(cls, MNIST)) => Unrecognised

C4_Witness ==
  /\ Dispatched
  /\ Contains(dataset[1].cls, MNIST)
  /\ Contains(dataset[1].cls, CIFAR)
  /\ EpsIs(8, 255)
  /\ dataset[1].value_range > 0

C6_ReportShape ==
  LoopCompleted =>
    /\ DOMAIN report = JobNames
    /\ \A k \in DOMAIN report :
         /\ Len(report[k].correctness) = Len(report[k].confidence)
         /\ Len(report[k].correctness) = Len(data[1].x_data)

C6_Witness ==
  /\ pc = "save"
  /\ DOMAIN report = JobNames
  /\ Len(data[1].x_data) >= 2
  /\ Len(report["mc"].confidence) >= 2

\* C7: value_range is max_val * (1 + center), min_value is -center * max_val,
\* the attack clips to [min_value, max_val], so clip_max - clip_min is
\* value_range
C7_ValueRange ==
  /\ dataset # None =>
       LET kw == model[1].factory.kwargs IN
         /\ dataset[1].value_range = kw.max_val + kw.center * kw.max_val
         /\ dataset[1].min_value + kw.center * kw.max_val = 0
  /\ mc_params # None =>
       /\ mc_params[1].clip_min = dataset[1].min_value
       /\ mc_params[1].clip_max = model[1].factory.kwargs.max_val
       /\ mc_params[1].clip_max - mc_params[1].clip_min = dataset[1].value_range

C7_Witness ==
  /\ mc_params # None
  /\ model[1].factory.kwargs.center = 1
  /\ mc_params[1].clip_min < 0
  /\ mc_params[1].clip_max - mc_params[1].clip_min = 2 * mc_params[1].clip_max

ExpectedCalls ==
  << [ x |-> data[1].x_data, y |-> data[1].y_data, batch_size |-> args[1].batch_size,
       attack |-> None, attack_params |-> None ],
     [ x |-> data[1].x_data, y |-> data[1].y_data, batch_size |-> args[1].batch_size,
       attack |-> Some(MaxConfidenceAttack), attack_params |-> mc_params ] >>

\* C8: a run calls correctness_and_confidence twice, the clean job with no
\* attack and no parameters, then the mc job with MaxConfidence over SPSA and
\* mc_params, both on the same x_data, y_data and batch_size
C8_TwoCallsInOrder ==
  /\ data = None => calls = <<>>
  /\ data # None =>
       /\ Len(calls) <= 2
       /\ calls = SubSeq(ExpectedCalls, 1, Len(calls))
       /\ mc_params # None
  /\ LoopCompleted => Len(calls) = 2

C8_Witness ==
  /\ pc = "save"
  /\ Len(calls) = 2
  /\ calls[1].attack = None
  /\ calls[2].attack = Some(MaxConfidenceAttack)
  /\ Len(calls[2].x) >= 1

\* C9: the save is reached only after both jobs have returned; a run that
\* fails, on an unrecognised family (before any evaluation call) or in an
\* evaluation call, leaves no report on disk
C9_NoPartialReport ==
  /\ (disk # None \/ pc \in {"save", "done"}) =>
       (DOMAIN report = JobNames /\ Len(calls) = 2)
  /\ error = "NotImplementedError" => (calls = <<>> /\ disk = None)
  /\ pc = "failed" => disk = None

C9_Witness ==
  /\ pc = "failed"
  /\ error = "EvaluationError"
  /\ Len(calls) = 2
  /\ DOMAIN report = {"clean"}
  /\ disk = None

\* C10: with report_path None and a filepath that does not end with
\* '.joblib' the run fails with an AssertionError before the model is loaded:
\* no load, no dataset, no evaluation call, no save
C10_AssertBeforeLoad ==
  ( /\ Called
    /\ pc # "report_path"
    /\ args[1].report_path = None
    /\ ~EndsWith(args[1].filepath, JOBLIB) )
  => ( /\ pc = "failed"
       /\ error = "AssertionError"
       /\ model = None
       /\ dataset = None
       /\ data = None
       /\ calls = <<>>
       /\ disk = None )

C10_Witness ==
  /\ pc = "failed"
  /\ error = "AssertionError"
  /\ Called
  /\ args[1].report_path = None
  /\ Contains(args[1].filepath, JOBLIB)
  /\ ~EndsWith(args[1].filepath, JOBLIB)
  /\ model = None
====
